---- MODULE Spec2Model ----
(***************************************************************************)
(* Verification model of the ESP32 threshold-alert sketches of the         *)
(* repository: the DHT11 control loops of Chapter 11, 12, 13 and 14, the   *)
(* Chapter 8 temperature/humidity classifiers and the NeoPixel blinker.    *)
(*                                                                         *)
(* Every sketch is a single-threaded Arduino program: setup() runs once,   *)
(* then loop() is called forever.  One action of the model is one call of  *)
(* loop() (or one call of a sample handler); the millis() clock advances   *)
(* between two calls.  A float is a record [nan, v]; comparisons with a    *)
(* NaN operand are false, as in IEEE 754.                                  *)
(***************************************************************************)
EXTENDS Integers, Naturals, Sequences, FiniteSets, TLC

VARIABLES sketch, millis, st, obs

vars == <<sketch, millis, st, obs>>

(***************************************************************************)
(* Bounds of the model.                                                    *)
(***************************************************************************)
\* samples of the sensor taken in one run of the model
MaxSamples == 4
\* failed MQTT connects in one run of the model
MaxConnectFailures == 1

(***************************************************************************)
(* Floats and unsigned 32-bit time.                                        *)
(***************************************************************************)
NaN == [nan |-> TRUE, v |-> 0]
Num(n) == [nan |-> FALSE, v |-> n]
isnan(x) == x.nan
Lt(a, b) == ~a.nan /\ ~b.nan /\ a.v < b.v
Gt(a, b) == ~a.nan /\ ~b.nan /\ a.v > b.v
Le(a, b) == ~a.nan /\ ~b.nan /\ a.v <= b.v
Ge(a, b) == ~a.nan /\ ~b.nan /\ a.v >= b.v

\* unsigned long is 32 bits wide on the ESP32.  A time stamp is kept as its two
\* 16-bit halves [hi, lo], so that arithmetic modulo 2^32 stays inside the
\* integers the model checker computes with.
W16 == 2 ^ 16
U32(n) == [hi |-> (n \div W16) % W16, lo |-> n % W16]
MsOf(t) == t.hi * W16 + t.lo
\* t + d for 0 <= d < 2^16, modulo 2^32
AddU32(t, d) == [hi |-> (t.hi + (t.lo + d) \div W16) % W16, lo |-> (t.lo + d) % W16]
\* variant for C33: the borrow from the low half is not taken
SubU32_NoBorrow(a, b) ==
  [hi |-> (a.hi - b.hi) % W16, lo |-> (a.lo - b.lo) % W16]

\* a - b modulo 2^32
SubU32(a, b) ==
  [hi |-> (a.hi - b.hi - (IF a.lo < b.lo THEN 1 ELSE 0)) % W16, lo |-> (a.lo - b.lo) % W16]
\* unsigned comparisons of a time with a constant n < 2^31
GeU32(a, n) == a.hi > U32(n).hi \/ (a.hi = U32(n).hi /\ a.lo >= U32(n).lo)
GtU32(a, n) == a.hi > U32(n).hi \/ (a.hi = U32(n).hi /\ a.lo > U32(n).lo)
\* currentMillis - lastTime in unsigned long arithmetic
Elapsed(now, last) == SubU32(now, last)

(***************************************************************************)
(* Program constants of the Chapter 11-14 sketches.                        *)
(***************************************************************************)
SYS_LED_ON == 255
SYS_LED_OFF == 0
BUZZER_VOLUME_HALF == 512
BUZZER_OFF == 0
TEMP_MIN == Num(10)
TEMP_MAX == Num(25)
HUM_MIN == Num(10)
HUM_MAX == Num(80)
sensorReadInterval == 3000
blinkInterval == 100
MAX_SENSOR_ERROR_RETRIES == 3
WIFI_CONNECT_RETRY_DELAY_MS == 5000
MQTT_RECONNECT_DELAY_MS == 3000

\* granularity of the model's clock: two loop() calls are half a blink interval
\* or a whole blink interval apart, so that a blink step sees an elapsed time
\* below, equal to and above the interval
Quantum == blinkInterval \div 2
TimeSteps == {Quantum, blinkInterval}

\* the values a DHT11 read can return, around every threshold of the sketches
TempValues == {NaN, Num(9), Num(10), Num(14), Num(15), Num(20), Num(25), Num(26), Num(30), Num(31)}
HumValues == {NaN, Num(9), Num(10), Num(40), Num(60), Num(61), Num(80), Num(81)}

\* DHT::convertCtoF as used by readTemperature(true); the Fahrenheit read can
\* fail on its own
convertCtoF(c) == IF c.nan THEN NaN ELSE Num((c.v * 9) \div 5 + 32)
DhtReadings ==
  { [humidity |-> h, temperatureC |-> c, temperatureF |-> IF fFails THEN NaN ELSE convertCtoF(c)] :
      h \in HumValues, c \in TempValues, fFails \in BOOLEAN }
NoReading == [humidity |-> NaN, temperatureC |-> NaN, temperatureF |-> NaN]
\* the readings fed to the timed control loops: a failed humidity, a failed
\* temperature, a low, a normal and a high reading, each with and without a
\* failed Fahrenheit read
LoopReadings ==
  { r \in DhtReadings :
      <<r.humidity, r.temperatureC>> \in
        { <<NaN, Num(20)>>, <<Num(40), NaN>>, <<Num(9), Num(20)>>,
          <<Num(40), Num(20)>>, <<Num(40), Num(26)>> } }

(***************************************************************************)
(* State of a Chapter 11-14 sketch: the globals of main.cpp, the static    *)
(* ledState of ledBlinking, the output pins, the calls of ESP.restart()     *)
(* made so far, and where the program is: in loop() or inside connectAWS.  *)
(* Chapter 12's loop() and handlers are those of Chapter 11.               *)
(***************************************************************************)
Ch11Sketches == {"Ch11", "Ch12"}
LoopSketches == {"Ch11", "Ch12", "Ch13", "Ch14"}

InitSt(k) ==
  [ lastCheckTime |-> U32(0),
    sensorErrorCount |-> 0,
    currentCondition |-> IF k = "Ch13" THEN "SensorError" ELSE IF k = "Ch14" THEN "Error" ELSE "unused",
    shouldBlink |-> FALSE,
    lastBlinkTime |-> U32(0),
    blinkingLED |-> "none",
    ledState |-> FALSE,
    red |-> FALSE, green |-> FALSE, blue |-> FALSE,
    ledD5 |-> SYS_LED_OFF,
    buzzer |-> BUZZER_OFF,
    restarts |-> 0,
    pc |-> "loop" ]

\* millis() when setup() returns: at once in Chapter 11; in Chapter 12-14 after
\* the WiFi, NTP and MQTT connection sequences, taken as one WiFi retry delay
SetupMillis(k) == IF k = "Ch11" THEN 0 ELSE WIFI_CONNECT_RETRY_DELAY_MS

updateLEDs(s, r, g, b) == [s EXCEPT !.red = r, !.green = g, !.blue = b]

\* variant for C12: the normal indication leaves blinking enabled
indicateNormalCondition_KeepsBlinking(s) ==
  [updateLEDs(s, FALSE, TRUE, FALSE) EXCEPT !.ledD5 = SYS_LED_OFF, !.buzzer = BUZZER_OFF]

indicateNormalCondition(s) ==
  [updateLEDs(s, FALSE, TRUE, FALSE) EXCEPT
     !.shouldBlink = FALSE, !.ledD5 = SYS_LED_OFF, !.buzzer = BUZZER_OFF]

indicateConditionBelowRange(s) ==
  [s EXCEPT !.shouldBlink = TRUE, !.ledD5 = SYS_LED_OFF, !.blinkingLED = "DATA_LED_BELOW_BLUE"]

\* variant for C14: the above-range indication names the blue LED
indicateConditionAboveRange_BlinksBlue(s) ==
  [s EXCEPT !.shouldBlink = TRUE, !.ledD5 = SYS_LED_OFF, !.blinkingLED = "DATA_LED_BELOW_BLUE"]

indicateConditionAboveRange(s) ==
  [s EXCEPT !.shouldBlink = TRUE, !.ledD5 = SYS_LED_OFF, !.blinkingLED = "DATA_LED_ABOVE_RED"]

\* the indication part shared by every indicateSensorError
renderSensorError(s) ==
  [updateLEDs(s, FALSE, FALSE, FALSE) EXCEPT
     !.shouldBlink = FALSE, !.ledD5 = SYS_LED_ON, !.buzzer = BUZZER_VOLUME_HALF]

\* variant for C1: the restart comes one invalid sample late
indicateSensorError_RestartLate(s) ==
  LET c == [s EXCEPT !.sensorErrorCount = @ + 1]
  IN  IF c.sensorErrorCount > 3
        THEN [c EXCEPT !.restarts = @ + 1]
        ELSE renderSensorError(c)

\* Chapter 11, 12: counts, restarts at 3 (ESP.restart() does not return)
indicateSensorError(s) ==
  LET c == [s EXCEPT !.sensorErrorCount = @ + 1]
  IN  IF c.sensorErrorCount >= 3
        THEN [c EXCEPT !.restarts = @ + 1]
        ELSE renderSensorError(c)

\* Chapter 13: indication only, the loop counts
indicateSensorError13(s) == renderSensorError(s)

\* Chapter 14: counts against MAX_SENSOR_ERROR_RETRIES
indicateSensorError14(s) ==
  LET c == [s EXCEPT !.sensorErrorCount = @ + 1]
  IN  IF c.sensorErrorCount >= MAX_SENSOR_ERROR_RETRIES
        THEN [c EXCEPT !.restarts = @ + 1]
        ELSE renderSensorError(c)

\* variant for C6: the bounds themselves are outside the normal range
InNormalRange_Exclusive(h, c) == Gt(c, TEMP_MIN) /\ Lt(c, TEMP_MAX) /\ Gt(h, HUM_MIN) /\ Lt(h, HUM_MAX)

\* the if-chain of checkSensorReadings over a reading without NaN
InNormalRange(h, c) == Ge(c, TEMP_MIN) /\ Le(c, TEMP_MAX) /\ Ge(h, HUM_MIN) /\ Le(h, HUM_MAX)
BelowNormalRange(h, c) == Lt(c, TEMP_MIN) \/ Lt(h, HUM_MIN)

\* variant for C2: a valid reading leaves sensorErrorCount as it is
checkSensorReadings_NoReset(s, r) ==
  IF isnan(r.humidity) \/ isnan(r.temperatureC)
    THEN indicateSensorError(s)
    ELSE IF InNormalRange(r.humidity, r.temperatureC) THEN indicateNormalCondition(s)
         ELSE IF BelowNormalRange(r.humidity, r.temperatureC) THEN indicateConditionBelowRange(s)
         ELSE indicateConditionAboveRange(s)

\* variant for C4: only the temperature is tested for NaN
checkSensorReadings_HumidityUnchecked(s, r) ==
  IF isnan(r.temperatureC)
    THEN indicateSensorError(s)
    ELSE LET z == [s EXCEPT !.sensorErrorCount = 0]
         IN  IF InNormalRange(r.humidity, r.temperatureC) THEN indicateNormalCondition(z)
             ELSE IF BelowNormalRange(r.humidity, r.temperatureC) THEN indicateConditionBelowRange(z)
             ELSE indicateConditionAboveRange(z)

\* variant for C24: while a range tag blinks, a reading inside the ranges
\* keeps it
checkSensorReadings_Hysteresis(s, r) ==
  IF isnan(r.humidity) \/ isnan(r.temperatureC)
    THEN indicateSensorError(s)
    ELSE LET z == [s EXCEPT !.sensorErrorCount = 0]
         IN  IF InNormalRange(r.humidity, r.temperatureC)
               THEN IF s.shouldBlink THEN z ELSE indicateNormalCondition(z)
             ELSE IF BelowNormalRange(r.humidity, r.temperatureC) THEN indicateConditionBelowRange(z)
             ELSE indicateConditionAboveRange(z)

checkSensorReadings(s, r) ==
  IF isnan(r.humidity) \/ isnan(r.temperatureC)
    THEN indicateSensorError(s)
    ELSE LET z == [s EXCEPT !.sensorErrorCount = 0]
         IN  IF InNormalRange(r.humidity, r.temperatureC) THEN indicateNormalCondition(z)
             ELSE IF BelowNormalRange(r.humidity, r.temperatureC) THEN indicateConditionBelowRange(z)
             ELSE indicateConditionAboveRange(z)

checkSensorReadings13(s, r) ==
  IF isnan(r.humidity) \/ isnan(r.temperatureC) \/ isnan(r.temperatureF)
    THEN [indicateSensorError13(s) EXCEPT !.currentCondition = "SensorError"]
    ELSE IF InNormalRange(r.humidity, r.temperatureC)
           THEN [indicateNormalCondition(s) EXCEPT !.currentCondition = "Normal"]
         ELSE IF BelowNormalRange(r.humidity, r.temperatureC)
           THEN [indicateConditionBelowRange(s) EXCEPT !.currentCondition = "BelowNormal"]
         ELSE [indicateConditionAboveRange(s) EXCEPT !.currentCondition = "AboveNormal"]

checkSensorReadings14(s, r) ==
  IF isnan(r.humidity) \/ isnan(r.temperatureC) \/ isnan(r.temperatureF)
    THEN LET e == indicateSensorError14(s)
         IN  IF e.restarts > 0 THEN e ELSE [e EXCEPT !.currentCondition = "Error"]
    ELSE IF InNormalRange(r.humidity, r.temperatureC)
           THEN [indicateNormalCondition(s) EXCEPT !.currentCondition = "Normal"]
         ELSE IF BelowNormalRange(r.humidity, r.temperatureC)
           THEN [indicateConditionBelowRange(s) EXCEPT !.currentCondition = "BelowNormal"]
         ELSE [indicateConditionAboveRange(s) EXCEPT !.currentCondition = "AboveNormal"]

\* variant for C8: the toggle waits until more than the interval has elapsed
ledBlinking_Strict(s, now) ==
  IF ~s.shouldBlink THEN s
  ELSE IF GtU32(Elapsed(now, s.lastBlinkTime), blinkInterval)
    THEN LET t == [s EXCEPT !.lastBlinkTime = now, !.ledState = ~s.ledState]
             u == IF t.blinkingLED = "DATA_LED_BELOW_BLUE" THEN updateLEDs(t, FALSE, FALSE, t.ledState)
                  ELSE IF t.blinkingLED = "DATA_LED_ABOVE_RED" THEN updateLEDs(t, t.ledState, FALSE, FALSE)
                  ELSE t
         IN  [u EXCEPT !.buzzer = IF t.ledState THEN BUZZER_VOLUME_HALF ELSE BUZZER_OFF]
    ELSE s

\* ledBlinking (Chapter 11, 12, 14) and blinkLEDs (Chapter 13) at millis() = now
ledBlinking(s, now) ==
  IF ~s.shouldBlink THEN s
  ELSE IF GeU32(Elapsed(now, s.lastBlinkTime), blinkInterval)
    THEN LET t == [s EXCEPT !.lastBlinkTime = now, !.ledState = ~s.ledState]
             u == IF t.blinkingLED = "DATA_LED_BELOW_BLUE" THEN updateLEDs(t, FALSE, FALSE, t.ledState)
                  ELSE IF t.blinkingLED = "DATA_LED_ABOVE_RED" THEN updateLEDs(t, t.ledState, FALSE, FALSE)
                  ELSE t
         IN  [u EXCEPT !.buzzer = IF t.ledState THEN BUZZER_VOLUME_HALF ELSE BUZZER_OFF]
    ELSE s

blinkLEDs(s, now) == ledBlinking(s, now)

(***************************************************************************)
(* loop() of each sketch, called at millis() = now.  r is what the DHT11   *)
(* returns if this call samples.                                           *)
(***************************************************************************)
SampleDue(s, now) == GeU32(Elapsed(now, s.lastCheckTime), sensorReadInterval)

\* Chapter 11 and 12
loop11(s, now, r) ==
  LET a == IF SampleDue(s, now)
             THEN checkSensorReadings([s EXCEPT !.lastCheckTime = now], r)
             ELSE s
  IN  IF a.restarts > 0 THEN a ELSE ledBlinking(a, now)

\* Chapter 13: the loop keeps the failure count
countSensorErrors13(s, r) ==
  IF ~isnan(r.humidity) /\ ~isnan(r.temperatureC)
    THEN [s EXCEPT !.sensorErrorCount = 0]
    ELSE LET c == [s EXCEPT !.sensorErrorCount = @ + 1]
         IN  IF c.sensorErrorCount >= MAX_SENSOR_ERROR_RETRIES
               THEN [c EXCEPT !.restarts = @ + 1]
               ELSE c

loop13(s, now, r) ==
  LET a == IF SampleDue(s, now)
             THEN countSensorErrors13(checkSensorReadings13([s EXCEPT !.lastCheckTime = now], r), r)
             ELSE s
  IN  IF a.restarts > 0 THEN a ELSE blinkLEDs(a, now)

\* variant for C20: the switch without its BelowNormal case, which then falls
\* to the default
conditionStr_NoBelowCase(c) ==
  IF c = "Normal" THEN "Normal"
  ELSE IF c = "AboveNormal" THEN "Above Normal"
  ELSE "Error"

\* Chapter 14: the status string mqttPublishMessage puts in the message
conditionStr(c) ==
  IF c = "Normal" THEN "Normal"
  ELSE IF c = "BelowNormal" THEN "Below Normal"
  ELSE IF c = "AboveNormal" THEN "Above Normal"
  ELSE "Error"

\* variant for C19: every sample is published, failed reads included
Publishes_EverySample(s, now, r) == SampleDue(s, now)

\* Chapter 14: does this call of loop() publish
Publishes(s, now, r) == SampleDue(s, now) /\ ~isnan(r.humidity) /\ ~isnan(r.temperatureC)

\* variant for C18: a publish that finds the client disconnected records the
\* condition Error
mqttPublishMessage_MarksError(s, connected) ==
  IF ~connected THEN [s EXCEPT !.pc = "connectAWS", !.currentCondition = "Error"] ELSE s

\* Chapter 14: connected is mqttClient.connected() at the publish; when it is
\* false the program enters connectAWS (pc = "connectAWS") and stays there
\* until a connect succeeds.  The message itself leaves the device (see obs);
\* no global of the sketch is written.
mqttPublishMessage(s, connected) ==
  IF ~connected THEN [s EXCEPT !.pc = "connectAWS"] ELSE s

loop14(s, now, r, connected) ==
  LET a == IF SampleDue(s, now)
             THEN checkSensorReadings14([s EXCEPT !.lastCheckTime = now], r)
             ELSE s
      p == IF a.restarts = 0 /\ Publishes(s, now, r) THEN mqttPublishMessage(a, connected) ELSE a
  IN  IF p.restarts > 0 \/ p.pc = "connectAWS" THEN p ELSE ledBlinking(p, now)

\* one mqttClient.connect() of connectAWS's retry loop; when it succeeds
\* mqttPublishMessage goes on and loop() reaches ledBlinking
connectAWS(s, now, connects) ==
  IF connects THEN ledBlinking([s EXCEPT !.pc = "loop"], now) ELSE s

(***************************************************************************)
(* Observations for the claims: what the environment fed in and what the   *)
(* last step did.  They never influence the program.                       *)
(*   samples     samples taken so far                                      *)
(*   invalidRun  samples in a row, up to the last one, that the sketch's   *)
(*               own NaN test rejected (see InvalidReading)                *)
(*   prevRun     invalidRun before the last sample                         *)
(*   sampled     the last step sampled the sensor                          *)
(*   blink       the elapsed time the last blink step saw while blinking   *)
(*               was enabled ("early" < interval, "exact", "late")         *)
(*   sent        the MQTT message the last step published, if any          *)
(*   tag         the condition of the last sample, worked out from the      *)
(*               values the sensor returned (see TagOf)                     *)
(*   readOk      the humidity and the Celsius temperature of the last       *)
(*               sample were both read (neither is NaN)                     *)
(*   failures    failed connects of connectAWS so far                      *)
(***************************************************************************)
\* the reading is one the sketch counts as failed: Chapter 11-13 count on a
\* NaN humidity or Celsius temperature, Chapter 14 also on a NaN Fahrenheit
InvalidReading(r) ==
  \/ isnan(r.humidity) \/ isnan(r.temperatureC)
  \/ (sketch = "Ch14" /\ isnan(r.temperatureF))

\* a read of the sample failed: Chapter 11 and 12 test the humidity and the
\* Celsius temperature, Chapter 13 and 14 the Fahrenheit temperature as well
FailedRead(r) ==
  \/ isnan(r.humidity) \/ isnan(r.temperatureC)
  \/ (sketch \in {"Ch13", "Ch14"} /\ isnan(r.temperatureF))

\* the condition a reading stands for: a failed read, every value inside its
\* range (the bounds included), a value below its range, or else above
TagOf(r) ==
  IF FailedRead(r) THEN "SensorError"
  ELSE IF r.temperatureC.v \in 10..25 /\ r.humidity.v \in 10..80 THEN "Normal"
  ELSE IF r.temperatureC.v < 10 \/ r.humidity.v < 10 THEN "BelowRange"
  ELSE "AboveRange"

NoMessage == [status |-> "none", ok |-> FALSE]

InitObs ==
  [ samples |-> 0, invalidRun |-> 0, prevRun |-> 0, sampled |-> FALSE,
    blink |-> "none", sent |-> NoMessage, failures |-> 0, tag |-> "none",
    readOk |-> FALSE ]

ElapsedClass(e) ==
  IF e = U32(blinkInterval) THEN "exact" ELSE IF GeU32(e, blinkInterval) THEN "late" ELSE "early"

\* s: state before a call of loop(), t: state after it, m: the message it sent
Observe(o, s, t, now, r, m) ==
  LET due == SampleDue(s, now)
  IN  [ samples |-> IF due THEN o.samples + 1 ELSE o.samples,
        invalidRun |-> IF ~due THEN o.invalidRun
                       ELSE IF InvalidReading(r) THEN o.invalidRun + 1
                       ELSE 0,
        prevRun |-> IF due THEN o.invalidRun ELSE o.prevRun,
        sampled |-> due,
        blink |-> IF t.restarts = 0 /\ t.pc = "loop" /\ t.shouldBlink
                    THEN ElapsedClass(Elapsed(now, s.lastBlinkTime))
                    ELSE "none",
        sent |-> m,
        failures |-> o.failures,
        tag |-> IF due THEN TagOf(r) ELSE o.tag,
        readOk |-> IF due THEN ~isnan(r.humidity) /\ ~isnan(r.temperatureC) ELSE o.readOk ]

\* the same after one connect attempt of connectAWS
ObserveConnect(o, s, t, now, m) ==
  [ o EXCEPT !.sampled = FALSE,
             !.blink = IF t.pc = "loop" /\ t.shouldBlink
                         THEN ElapsedClass(Elapsed(now, s.lastBlinkTime))
                         ELSE "none",
             !.sent = m,
             !.failures = IF t.pc = "loop" THEN @ ELSE @ + 1 ]

Running == st.restarts = 0

\* The schedule of loop() calls the model explores.  Within two blink intervals
\* before a sample is due the next call comes a quantum or a blink interval
\* after this one.  Further away from the sample the calls are regular: while
\* blinking is enabled one call every blink interval; while it is disabled the
\* calls change nothing but the clock, and the model goes on with the first
\* call inside that window.
NearSample(s, t) == GeU32(AddU32(Elapsed(t, s.lastCheckTime), 2 * blinkInterval), sensorReadInterval)
NextCallDelays(s, t) ==
  IF NearSample(s, t) THEN TimeSteps
  ELSE IF s.shouldBlink THEN {blinkInterval}
  ELSE {sensorReadInterval - 2 * blinkInterval - MsOf(Elapsed(t, s.lastCheckTime))}

\* the model follows the program until the last sample the bound allows and
\* for two blink intervals after it
CanCall(now) ==
  \/ obs.samples < MaxSamples
  \/ ~GtU32(Elapsed(now, st.lastCheckTime), 2 * blinkInterval)

Init ==
  /\ sketch \in LoopSketches
  /\ millis = U32(SetupMillis(sketch))
  /\ st = InitSt(sketch)
  /\ obs = InitObs

Loop11 ==
  /\ sketch \in Ch11Sketches /\ Running
  /\ \E d \in NextCallDelays(st, millis) :
       LET now == AddU32(millis, d)
       IN  /\ CanCall(now)
           /\ millis' = now
           /\ \E r \in IF SampleDue(st, now) THEN LoopReadings ELSE {NoReading} :
                /\ st' = loop11(st, now, r)
                /\ obs' = Observe(obs, st, st', now, r, NoMessage)
  /\ UNCHANGED sketch

Loop13 ==
  /\ sketch = "Ch13" /\ Running
  /\ \E d \in NextCallDelays(st, millis) :
       LET now == AddU32(millis, d)
       IN  /\ CanCall(now)
           /\ millis' = now
           /\ \E r \in IF SampleDue(st, now) THEN LoopReadings ELSE {NoReading} :
                /\ st' = loop13(st, now, r)
                /\ obs' = Observe(obs, st, st', now, r, NoMessage)
  /\ UNCHANGED sketch

Loop14 ==
  /\ sketch = "Ch14" /\ Running /\ st.pc = "loop"
  /\ \E d \in NextCallDelays(st, millis) :
       LET now == AddU32(millis, d)
       IN  /\ CanCall(now)
           /\ millis' = now
           /\ \E r \in IF SampleDue(st, now) THEN LoopReadings ELSE {NoReading} :
              \E connected \in IF Publishes(st, now, r) THEN BOOLEAN ELSE {TRUE} :
              \E ok \in IF Publishes(st, now, r) /\ connected THEN BOOLEAN ELSE {FALSE} :
                /\ st' = loop14(st, now, r, connected)
                /\ obs' = Observe(obs, st, st', now, r,
                                  IF Publishes(st, now, r) /\ st'.restarts = 0 /\ connected
                                    THEN [status |-> conditionStr(st'.currentCondition), ok |-> ok]
                                    ELSE NoMessage)
  /\ UNCHANGED sketch

\* a failed connect is followed by delay(MQTT_RECONNECT_DELAY_MS)
ConnectAWS ==
  /\ sketch = "Ch14" /\ Running /\ st.pc = "connectAWS"
  /\ \E connects \in BOOLEAN, ok \in BOOLEAN :
       LET now == AddU32(millis, IF connects THEN Quantum ELSE MQTT_RECONNECT_DELAY_MS)
       IN  /\ ~connects => (~ok /\ obs.failures < MaxConnectFailures)
           /\ millis' = now
           /\ st' = connectAWS(st, now, connects)
           /\ obs' = ObserveConnect(obs, st, st', now,
                                    IF connects
                                      THEN [status |-> conditionStr(st'.currentCondition), ok |-> ok]
                                      ELSE NoMessage)
  /\ UNCHANGED sketch

Next == Loop11 \/ Loop13 \/ Loop14 \/ ConnectAWS

Spec == Init /\ [][Next]_vars

(***************************************************************************)
(* Failure counting and restart                                            *)
(***************************************************************************)
CountingSketches == {"Ch11", "Ch12", "Ch13"}

C2_ValidSampleResetsCount ==
  sketch \in CountingSketches =>
    /\ st.sensorErrorCount = obs.invalidRun
    /\ (obs.sampled /\ obs.invalidRun = 0) => st.sensorErrorCount = 0

\* a valid sample right after two invalid ones: the count goes from 2 to 0
C2_Witness ==
  /\ sketch \in CountingSketches
  /\ obs.sampled /\ obs.prevRun = 2 /\ obs.invalidRun = 0
  /\ st.sensorErrorCount = 0 /\ st.restarts = 0

\* C3: in Chapter 14 a restart needs three invalid samples with no valid one
\* between them.
C3_RestartNeedsConsecutiveInvalid ==
  sketch = "Ch14" => (st.restarts > 0 => obs.invalidRun >= MAX_SENSOR_ERROR_RETRIES)

(***************************************************************************)
(* Blinking                                                                *)
(***************************************************************************)
\* the step ran ledBlinking/blinkLEDs with blinking enabled
BlinkStepRan == st'.restarts = 0 /\ st'.pc = "loop" /\ st'.shouldBlink

\* C8: in Chapter 11-14 a call of ledBlinking/blinkLEDs with blinking enabled
\* toggles the LED phase once, stamping lastBlinkTime, when 100 ms or more
\* have elapsed since the last toggle (exactly 100 ms included), and changes
\* neither the phase nor the stamp, the data LEDs or the buzzer when less
\* has elapsed.
C8_ToggleIffIntervalElapsed ==
  [][ (sketch \in LoopSketches /\ BlinkStepRan) =>
        IF GeU32(Elapsed(millis', st.lastBlinkTime), 100)
          THEN /\ st'.ledState = ~st.ledState
               /\ st'.lastBlinkTime = millis'
          ELSE /\ st'.ledState = st.ledState
               /\ st'.lastBlinkTime = st.lastBlinkTime
               /\ <<st'.red, st'.green, st'.blue, st'.buzzer>> = <<st.red, st.green, st.blue, st.buzzer>>
    ]_vars

\* a blink step exactly 100 ms after the last toggle has toggled
C8_Witness ==
  /\ sketch \in LoopSketches
  /\ obs.blink = "exact" /\ st.lastBlinkTime = millis /\ st.ledState

\* the data LED that blinkingLED names is lit
BlinkingLEDLit(s) ==
  IF s.blinkingLED = "DATA_LED_BELOW_BLUE" THEN s.blue
  ELSE IF s.blinkingLED = "DATA_LED_ABOVE_RED" THEN s.red
  ELSE FALSE

\* C10: in Chapter 11-14, at the end of every loop iteration that leaves
\* blinking enabled, the buzzer is at half volume exactly when the blinking
\* LED is lit and off exactly when it is dark.
C10_BuzzerFollowsBlinkingLED ==
  (sketch \in LoopSketches /\ Running /\ st.pc = "loop" /\ st.shouldBlink) =>
    /\ st.buzzer = BUZZER_VOLUME_HALF <=> BlinkingLEDLit(st)
    /\ st.buzzer = BUZZER_OFF <=> ~BlinkingLEDLit(st)

\* the step sampled, classified the reading below or above range, and the
\* tag it rendered is not the one shown before the sample
RendersNewBlinkingTag ==
  /\ obs'.sampled /\ BlinkStepRan
  /\ (~st.shouldBlink \/ st'.blinkingLED # st.blinkingLED)

TEMP_NORMAL_LOW == Num(15)
TEMP_NORMAL_HIGH == Num(30)
HUM_NORMAL_LOW == Num(10)
HUM_NORMAL_HIGH == Num(80)
PWM_BUZZER_VOLUME_HALF == 512
PWM_BUZZER_OFF == 0

InitDH11 ==
  [ lastCheckTime |-> U32(0),
    currentRedState |-> 0, currentGreenState |-> 0, currentBlueState |-> 0,
    buzzer |-> PWM_BUZZER_OFF, isBuzzerOn |-> FALSE ]

beepBuzzerAlert(s, activate) ==
  IF activate THEN [s EXCEPT !.buzzer = PWM_BUZZER_VOLUME_HALF, !.isBuzzerOn = TRUE]
  ELSE [s EXCEPT !.buzzer = PWM_BUZZER_OFF, !.isBuzzerOn = FALSE]

updateIndicatorStatus(s, humidity, temperatureC) ==
  LET tempHighAlert == Gt(temperatureC, TEMP_NORMAL_HIGH)
      humHighAlert == Gt(humidity, HUM_NORMAL_HIGH)
      tempLowAlert == Lt(temperatureC, TEMP_NORMAL_LOW)
      humLowAlert == Lt(humidity, HUM_NORMAL_LOW)
      lit == IF tempHighAlert \/ humHighAlert
               THEN [s EXCEPT !.currentRedState = 255, !.currentGreenState = 0, !.currentBlueState = 0]
             ELSE IF tempLowAlert \/ humLowAlert
               THEN [s EXCEPT !.currentRedState = 0, !.currentGreenState = 0, !.currentBlueState = 255]
             ELSE [s EXCEPT !.currentRedState = 0, !.currentGreenState = 255, !.currentBlueState = 0]
  IN  beepBuzzerAlert(lit, tempHighAlert \/ humHighAlert \/ tempLowAlert \/ humLowAlert)

(***************************************************************************)
(* Chapter 8, Temp_Humidity_DH11/src/main.cpp: class SensorLEDController,  *)
(* one WS2812B pixel.  pixel is the colour last shown.                     *)
(***************************************************************************)
lowTempThreshold == Num(10)
highTempThreshold == Num(25)
lowHumThreshold == Num(10)
highHumThreshold == Num(80)
readInterval == 3000

InitController ==
  [ lastReadTime |-> U32(0), lastBlinkTime |-> U32(0),
    highConditionFlag |-> FALSE, ledState |-> FALSE, pixel |-> "offColor" ]

setLEDColor(s, color) == [s EXCEPT !.pixel = color]

evaluateCondition(s, tempC, humidity) ==
  IF Lt(tempC, lowTempThreshold) \/ Lt(humidity, lowHumThreshold)
    THEN [setLEDColor(s, "blueColor") EXCEPT !.highConditionFlag = FALSE]
  ELSE IF Gt(tempC, highTempThreshold) \/ Gt(humidity, highHumThreshold)
    THEN [s EXCEPT !.highConditionFlag = TRUE]
  ELSE [setLEDColor(s, "greenColor") EXCEPT !.highConditionFlag = FALSE]

readAndHandleSensor(s, r) ==
  IF isnan(r.humidity) \/ isnan(r.temperatureC)
    THEN [setLEDColor(s, "redColor") EXCEPT !.highConditionFlag = FALSE]
    ELSE evaluateCondition(s, r.temperatureC, r.humidity)

(***************************************************************************)
(* Chapter 8, Temp_Humidity_DH11/test/main.cpp: the same thresholds and    *)
(* pixel, free functions instead of the class.                             *)
(***************************************************************************)
isNormalCondition(temp, humidity) ==
  Ge(temp, lowTempThreshold) /\ Le(temp, highTempThreshold) /\
  Ge(humidity, lowHumThreshold) /\ Le(humidity, highHumThreshold)
isColdOrDryCondition(temp, humidity) == Lt(temp, lowTempThreshold) \/ Lt(humidity, lowHumThreshold)
isHighCondition(temp, humidity) == Gt(temp, highTempThreshold) \/ Gt(humidity, highHumThreshold)

\* the sample branch of loop()
sampleTest(s, r) ==
  IF isnan(r.humidity) \/ isnan(r.temperatureC)
    THEN [setLEDColor(s, "redColor") EXCEPT !.highConditionFlag = FALSE]
  ELSE IF isNormalCondition(r.temperatureC, r.humidity)
    THEN [setLEDColor(s, "greenColor") EXCEPT !.highConditionFlag = FALSE]
  ELSE IF isColdOrDryCondition(r.temperatureC, r.humidity)
    THEN [setLEDColor(s, "blueColor") EXCEPT !.highConditionFlag = FALSE]
  ELSE IF isHighCondition(r.temperatureC, r.humidity)
    THEN [s EXCEPT !.highConditionFlag = TRUE]
  ELSE s

(***************************************************************************)
(* Chapter 8, "Temperature and humidity measurement": thresholds written   *)
(* in the condition itself (15..25 C, 10..60 %).                           *)
(***************************************************************************)
InitTHM ==
  [ lastReadTime |-> U32(0), lastBlinkTime |-> U32(0),
    isHighCondition |-> FALSE, pixel |-> "offColor" ]

displayColor(s, color) == [s EXCEPT !.pixel = color]

\* the sample branch of loop() at millis() = now
sampleTHM(s, now, r) ==
  LET humidity == r.humidity
      tempC == r.temperatureC
  IN  IF isnan(humidity) \/ isnan(tempC)
        THEN [displayColor(s, "redColor") EXCEPT !.isHighCondition = FALSE]
      ELSE IF (Ge(tempC, Num(15)) /\ Le(tempC, Num(25))) /\ (Ge(humidity, Num(10)) /\ Le(humidity, Num(60)))
        THEN [displayColor(s, "greenColor") EXCEPT !.isHighCondition = FALSE]
      ELSE IF Lt(tempC, Num(15)) \/ Lt(humidity, Num(10))
        THEN [displayColor(s, "blueColor") EXCEPT !.isHighCondition = FALSE]
      ELSE [s EXCEPT !.isHighCondition = TRUE, !.lastBlinkTime = now]

(***************************************************************************)
(* Chapter 8, ESP32C6-Builtin-Temp: TemperatureSensor                      *)
(***************************************************************************)
lowThreshold == Num(15)
highThreshold == Num(25)

getTemperatureState(temperature) ==
  IF isnan(temperature) THEN "Error"
  ELSE IF Lt(temperature, lowThreshold) THEN "Low"
  ELSE IF Gt(temperature, highThreshold) THEN "High"
  ELSE "Normal"

(***************************************************************************)
(* Classification on its own: every sketch's sample handler applied to one *)
(* reading after another, without the timers.  obs holds the reading the   *)
(* last step classified.                                                   *)
(***************************************************************************)
DhtSketches == LoopSketches \cup {"DH11", "SensorLED", "DH11test", "THM"}
ClassifySketches == DhtSketches \cup {"Builtin"}

InitStOf(k) ==
  IF k \in LoopSketches THEN InitSt(k)
  ELSE IF k = "DH11" THEN InitDH11
  ELSE IF k \in {"SensorLED", "DH11test"} THEN InitController
  ELSE IF k = "THM" THEN InitTHM
  ELSE [state |-> "Normal"]

\* Chapter 13 and 14 read the Fahrenheit temperature with a call of its own;
\* the other sketches convert the Celsius value or do not use it
ReadingsOf(k) ==
  IF k \in {"Ch13", "Ch14"} THEN DhtReadings
  ELSE { r \in DhtReadings : r.temperatureF = convertCtoF(r.temperatureC) }

\* the sample branch of loop() in Chapter 11-14
sampleLoop(k, s, r) ==
  IF k \in Ch11Sketches THEN checkSensorReadings(s, r)
  ELSE IF k = "Ch13" THEN countSensorErrors13(checkSensorReadings13(s, r), r)
  ELSE checkSensorReadings14(s, r)

Classified(r) == [reading |-> r, classified |-> TRUE]

InitClassify ==
  /\ sketch \in ClassifySketches
  /\ millis = U32(0)
  /\ st = InitStOf(sketch)
  /\ obs = [reading |-> NoReading, classified |-> FALSE]

ClassifyLoop ==
  /\ sketch \in LoopSketches /\ Running
  /\ \E r \in ReadingsOf(sketch) :
       /\ st' = sampleLoop(sketch, st, r)
       /\ obs' = Classified(r)
  /\ UNCHANGED <<sketch, millis>>

ClassifyDH11 ==
  /\ sketch = "DH11"
  /\ \E r \in ReadingsOf(sketch) :
       /\ st' = updateIndicatorStatus(st, r.humidity, r.temperatureC)
       /\ obs' = Classified(r)
  /\ UNCHANGED <<sketch, millis>>

ClassifyController ==
  /\ sketch = "SensorLED"
  /\ \E r \in ReadingsOf(sketch) :
       /\ st' = readAndHandleSensor(st, r)
       /\ obs' = Classified(r)
  /\ UNCHANGED <<sketch, millis>>

ClassifyTest ==
  /\ sketch = "DH11test"
  /\ \E r \in ReadingsOf(sketch) :
       /\ st' = sampleTest(st, r)
       /\ obs' = Classified(r)
  /\ UNCHANGED <<sketch, millis>>

ClassifyTHM ==
  /\ sketch = "THM"
  /\ \E r \in ReadingsOf(sketch) :
       /\ st' = sampleTHM(st, millis, r)
       /\ obs' = Classified(r)
  /\ UNCHANGED <<sketch, millis>>

ClassifyBuiltin ==
  /\ sketch = "Builtin"
  /\ \E r \in ReadingsOf(sketch) :
       /\ st' = [state |-> getTemperatureState(r.temperatureC)]
       /\ obs' = Classified(r)
  /\ UNCHANGED <<sketch, millis>>

NextClassify ==
  \/ ClassifyLoop \/ ClassifyDH11 \/ ClassifyController
  \/ ClassifyTest \/ ClassifyTHM \/ ClassifyBuiltin

SpecClassify == InitClassify /\ [][NextClassify]_vars

(***************************************************************************)
(* Classification claims, over SpecClassify                                *)
(***************************************************************************)
NoNaN(r) == ~isnan(r.humidity) /\ ~isnan(r.temperatureC) /\ ~isnan(r.temperatureF)

\* what indicateSensorError leaves behind in Chapter 11-14
ErrorRendered(k, s) ==
  /\ ~s.shouldBlink /\ ~s.red /\ ~s.green /\ ~s.blue
  /\ s.ledD5 = SYS_LED_ON /\ s.buzzer = BUZZER_VOLUME_HALF
  /\ k = "Ch13" => s.currentCondition = "SensorError"
  /\ k = "Ch14" => s.currentCondition = "Error"

\* what indicateNormalCondition leaves behind in Chapter 11-14
NormalRendered(k, s) ==
  /\ ~s.shouldBlink /\ ~s.red /\ s.green /\ ~s.blue
  /\ s.ledD5 = SYS_LED_OFF /\ s.buzzer = BUZZER_OFF
  /\ k \in {"Ch13", "Ch14"} => s.currentCondition = "Normal"

\* C4: a reading whose humidity or temperature is NaN is classified as a
\* sensor error whatever the other value is: Chapter 11-14 leave the error
\* indication (or restart the device) and none of the normal, below-range or
\* above-range indications; getTemperatureState returns Error.
C4_InvalidReadingIsSensorError ==
  /\ (sketch \in LoopSketches /\ obs.classified
        /\ (isnan(obs.reading.humidity) \/ isnan(obs.reading.temperatureC)))
       => (st.restarts > 0 \/ ErrorRendered(sketch, st))
  /\ (sketch = "Builtin" /\ obs.classified /\ isnan(obs.reading.temperatureC))
       => st.state = "Error"

\* Chapter 14 classifies a failed humidity read with a normal temperature
C4_Witness ==
  /\ sketch = "Ch14" /\ obs.classified
  /\ isnan(obs.reading.humidity) /\ obs.reading.temperatureC = Num(20)
  /\ st.restarts = 0 /\ ErrorRendered(sketch, st)

\* C5: Temp_Humidity_DH11/main.cpp never shows a sample whose humidity or
\* temperature read failed as normal (green LED on, buzzer off).
C5_FailedReadNotNormal ==
  (sketch = "DH11" /\ obs.classified
     /\ (isnan(obs.reading.humidity) \/ isnan(obs.reading.temperatureC)))
    => ~(st.currentGreenState = 255 /\ st.buzzer = PWM_BUZZER_OFF)

\* C6: a reading without NaN whose values all lie within their ranges, the
\* bounds included, is classified normal by Chapter 11-14 checkSensorReadings
\* (10..25 C, 10..80 %), by SensorLEDController (10..25 C, 10..80 %) and by
\* getTemperatureState (15..25 C).
C6_BoundsAreInclusive ==
  LET r == obs.reading
      inside == r.temperatureC.v \in 10..25 /\ r.humidity.v \in 10..80
  IN  /\ (sketch \in LoopSketches /\ obs.classified /\ NoNaN(r) /\ inside)
           => NormalRendered(sketch, st)
      /\ (sketch = "SensorLED" /\ obs.classified /\ NoNaN(r) /\ inside)
           => (st.pixel = "greenColor" /\ ~st.highConditionFlag)
      /\ (sketch = "Builtin" /\ obs.classified /\ ~isnan(r.temperatureC)
            /\ r.temperatureC.v \in 15..25)
           => st.state = "Normal"

\* Chapter 11-14 classify a reading on two of its bounds as normal
C6_Witness ==
  /\ sketch \in LoopSketches /\ obs.classified
  /\ obs.reading.temperatureC = Num(10) /\ obs.reading.humidity = Num(80)
  /\ NoNaN(obs.reading) /\ NormalRendered(sketch, st)

\* the low and high bounds of temperature and humidity in each DHT11 sketch
LowTempOf(k) == IF k \in {"DH11", "THM"} THEN 15 ELSE 10
HighTempOf(k) == IF k = "DH11" THEN 30 ELSE 25
LowHumOf(k) == 10
HighHumOf(k) == IF k = "THM" THEN 60 ELSE 80

\* one value below its low bound, the other above its high bound
MixedReading(k, r) ==
  /\ NoNaN(r)
  /\ \/ (r.temperatureC.v < LowTempOf(k) /\ r.humidity.v > HighHumOf(k))
     \/ (r.humidity.v < LowHumOf(k) /\ r.temperatureC.v > HighTempOf(k))

\* the sketch shows the below-range (blue) indication and not the red one
BlueIndicated(k, s) ==
  IF k \in LoopSketches
    THEN s.shouldBlink /\ s.blinkingLED = "DATA_LED_BELOW_BLUE"
  ELSE IF k = "DH11"
    THEN s.currentBlueState = 255 /\ s.currentRedState = 0
  ELSE IF k = "THM"
    THEN s.pixel = "blueColor" /\ ~s.isHighCondition
  ELSE s.pixel = "blueColor" /\ ~s.highConditionFlag

\* C7: in every DHT11 sketch a reading below the low bound of one quantity
\* and above the high bound of the other gets the below-range (blue)
\* indication, not the above-range (red) one.
C7_BelowTakesPrecedence ==
  (sketch \in DhtSketches /\ obs.classified /\ MixedReading(sketch, obs.reading))
    => BlueIndicated(sketch, st)

(***************************************************************************)
(* The NeoPixel DHT11 sketches with their timers: SensorLEDController's    *)
(* update() and loop() of Temp_Humidity_DH11/test/main.cpp, one call per   *)
(* step at millis() = now.                                                 *)
(***************************************************************************)
readIntervalTest == 5000

handleSensorReadings(s, now, r) ==
  IF GeU32(Elapsed(now, s.lastReadTime), readInterval)
    THEN readAndHandleSensor([s EXCEPT !.lastReadTime = now], r)
    ELSE s

handleLEDControl(s, now) ==
  IF s.highConditionFlag
    THEN IF GtU32(Elapsed(now, s.lastBlinkTime), blinkInterval)
           THEN setLEDColor([s EXCEPT !.lastBlinkTime = now, !.ledState = ~s.ledState],
                            IF ~s.ledState THEN "redColor" ELSE "offColor")
           ELSE s
  ELSE IF s.ledState THEN setLEDColor([s EXCEPT !.ledState = FALSE], "offColor")
  ELSE s

update(s, now, r) == handleLEDControl(handleSensorReadings(s, now, r), now)

\* test/main.cpp; the millis() calls of handleBlinking return the time of the
\* loop() call
handleBlinking(s, now) ==
  IF GtU32(Elapsed(now, s.lastBlinkTime), blinkInterval)
    THEN setLEDColor([s EXCEPT !.lastBlinkTime = now, !.ledState = ~s.ledState],
                     IF ~s.ledState THEN "redColor" ELSE "offColor")
    ELSE s

loopTest(s, now, r) ==
  LET a == IF GeU32(Elapsed(now, s.lastReadTime), readIntervalTest)
             THEN sampleTest([s EXCEPT !.lastReadTime = now], r)
             ELSE s
  IN  IF a.highConditionFlag THEN handleBlinking(a, now)
      ELSE IF a.ledState THEN setLEDColor([a EXCEPT !.ledState = FALSE], "offColor")
      ELSE a

NeoSketches == {"SensorLED", "DH11test"}
ReadIntervalOf(k) == IF k = "SensorLED" THEN readInterval ELSE readIntervalTest
ReadDue(k, s, now) == GeU32(Elapsed(now, s.lastReadTime), ReadIntervalOf(k))

\* a failed, a low, a normal and a high reading
NeoReadings ==
  { r \in ReadingsOf("SensorLED") :
      <<r.humidity, r.temperatureC>> \in
        {<<NaN, Num(20)>>, <<Num(9), Num(20)>>, <<Num(40), Num(20)>>, <<Num(40), Num(26)>>} }

\* The calls the model explores, as for Chapter 11-14: within two blink
\* intervals before a sample is due, and while the pixel has yet to be
\* switched off after the high condition, the next call comes a quantum or a
\* blink interval later; further away one call every blink interval while the
\* high condition blinks, and straight on to that window while nothing blinks.
NeoCallDelays(k, s, t) ==
  IF GeU32(AddU32(Elapsed(t, s.lastReadTime), 2 * blinkInterval), ReadIntervalOf(k)) THEN TimeSteps
  ELSE IF s.highConditionFlag THEN {blinkInterval}
  ELSE IF s.ledState THEN TimeSteps
  ELSE {ReadIntervalOf(k) - 2 * blinkInterval - MsOf(Elapsed(t, s.lastReadTime))}

CanCallNeo(now) ==
  \/ obs.samples < MaxSamples
  \/ ~GtU32(Elapsed(now, st.lastReadTime), 2 * blinkInterval)

InitNeo ==
  /\ sketch \in NeoSketches
  /\ millis = U32(0)
  /\ st = InitController
  /\ obs = [samples |-> 0, sampled |-> FALSE]

ObserveNeo(o, k, s, now) ==
  [ samples |-> IF ReadDue(k, s, now) THEN o.samples + 1 ELSE o.samples,
    sampled |-> ReadDue(k, s, now) ]

UpdateController ==
  /\ sketch = "SensorLED"
  /\ \E d \in NeoCallDelays(sketch, st, millis) :
       LET now == AddU32(millis, d)
       IN  /\ CanCallNeo(now)
           /\ millis' = now
           /\ \E r \in IF ReadDue(sketch, st, now) THEN NeoReadings ELSE {NoReading} :
                st' = update(st, now, r)
           /\ obs' = ObserveNeo(obs, sketch, st, now)
  /\ UNCHANGED sketch

LoopTest ==
  /\ sketch = "DH11test"
  /\ \E d \in NeoCallDelays(sketch, st, millis) :
       LET now == AddU32(millis, d)
       IN  /\ CanCallNeo(now)
           /\ millis' = now
           /\ \E r \in IF ReadDue(sketch, st, now) THEN NeoReadings ELSE {NoReading} :
                st' = loopTest(st, now, r)
           /\ obs' = ObserveNeo(obs, sketch, st, now)
  /\ UNCHANGED sketch

NextNeo == UpdateController \/ LoopTest

SpecNeo == InitNeo /\ [][NextNeo]_vars

\* C9: in SensorLEDController and in test/main.cpp, while the high condition
\* is active, a blink step called exactly blinkInterval after the call that
\* made the last toggle toggles the LED phase.
C9_ToggleAtExactSpacing ==
  [][ (sketch \in NeoSketches /\ st'.highConditionFlag
         /\ st.lastBlinkTime = millis /\ millis' = AddU32(millis, 100))
        => st'.ledState = ~st.ledState
    ]_vars

\* C27: in SensorLEDController, when a call of update() samples a failed, a
\* low or a normal reading, the call ends with the pixel showing the colour
\* the sample set (red, blue or green), also when the high condition was
\* blinking before; and until the next sample no call changes the pixel.
C27_SteadyColoursStay ==
  [][ (sketch = "SensorLED" /\ ~st'.highConditionFlag /\ obs'.samples > 0) =>
        IF obs'.sampled
          THEN \E r \in NeoReadings :
                 /\ ~readAndHandleSensor(st, r).highConditionFlag
                 /\ readAndHandleSensor(st, r).pixel \in {"redColor", "greenColor", "blueColor"}
                 /\ st'.pixel = readAndHandleSensor(st, r).pixel
          ELSE st'.pixel = st.pixel
    ]_vars

C13_FailedSampleRendersError ==
  [][ (sketch \in LoopSketches /\ obs'.tag = "SensorError" /\ st'.restarts = 0) =>
        /\ ErrorRendered(sketch, st')
        /\ st'.sensorErrorCount =
             IF obs'.sampled THEN st.sensorErrorCount + 1 ELSE st.sensorErrorCount
    ]_vars

\* C14: in Chapter 11-14, from a sample whose reads all succeeded with the
\* temperature above 25 and nothing below its range until the next sample,
\* blinking is enabled on the red LED with LED D5 off, and every toggle of
\* the blink step drives the red LED to the new phase, writes green and blue
\* off and sets the buzzer to half volume in the on phase and off in the off
\* phase.
C14_AboveRangeBlinksRed ==
  [][ (sketch \in LoopSketches /\ obs'.tag = "AboveRange") =>
        /\ st'.shouldBlink /\ st'.blinkingLED = "DATA_LED_ABOVE_RED"
        /\ st'.ledD5 = SYS_LED_OFF
        /\ st'.ledState # st.ledState =>
              /\ st'.red = st'.ledState /\ ~st'.green /\ ~st'.blue
              /\ st'.buzzer = IF st'.red THEN BUZZER_VOLUME_HALF ELSE BUZZER_OFF
    ]_vars

\* a toggle between two samples has lit the red LED and switched the buzzer
\* on, after an earlier toggle of the same episode
C14_Witness ==
  /\ sketch \in LoopSketches /\ obs.tag = "AboveRange"
  /\ ~obs.sampled /\ st.lastBlinkTime = millis /\ st.lastCheckTime # millis
  /\ st.ledState /\ st.red /\ ~st.green /\ ~st.blue
  /\ st.buzzer = BUZZER_VOLUME_HALF

\* C30: in Chapter 11-14, in every state at the end of a loop() iteration in
\* which the tag of the last sample is BelowRange or AboveRange, the green
\* LED is off and the LED of the other range tag is off (red under
\* BelowRange, blue under AboveRange).
C30_NoColourOfAnotherTag ==
  (sketch \in LoopSketches /\ Running /\ st.pc = "loop"
     /\ obs.tag \in {"BelowRange", "AboveRange"}) =>
    /\ ~st.green
    /\ obs.tag = "BelowRange" => ~st.red
    /\ obs.tag = "AboveRange" => ~st.blue

\* C31: in Chapter 13, after every sample sensorErrorCount is the length of
\* the run of samples tagged SensorError that ends with it: a sample tagged
\* SensorError adds exactly 1 to the count of the sample before, any other
\* sample leaves it at 0.
C31_CountIsErrorRun ==
  [][ (sketch = "Ch13" /\ obs'.sampled /\ st'.restarts = 0) =>
        st'.sensorErrorCount =
          IF obs'.tag = "SensorError" THEN st.sensorErrorCount + 1 ELSE 0
    ]_vars

(***************************************************************************)
(* Chapter 8, Flame_Detection_KY-026/main.cpp: a digital flame sensor read *)
(* once in setup() and then on a 3000 ms timer in loop().                  *)
(***************************************************************************)
SENSOR_READ_INTERVAL == 3000

InitFlame ==
  [ pc |-> "setup", lastCheckTime |-> U32(0),
    currentRedState |-> 0, currentGreenState |-> 0, currentBlueState |-> 0,
    buzzer |-> PWM_BUZZER_OFF, isBuzzerOn |-> FALSE ]

updateIndicatorStatusFlame(s, flameDetected) ==
  IF flameDetected
    THEN [s EXCEPT !.currentRedState = 255, !.currentGreenState = 0, !.currentBlueState = 0]
    ELSE [s EXCEPT !.currentRedState = 0, !.currentGreenState = 255, !.currentBlueState = 0]

beepBuzzerAlertFlame(s, flameDetected) ==
  IF flameDetected THEN [s EXCEPT !.buzzer = PWM_BUZZER_VOLUME_HALF, !.isBuzzerOn = TRUE]
  ELSE [s EXCEPT !.buzzer = PWM_BUZZER_OFF, !.isBuzzerOn = FALSE]

\* the end of setup(): the initial read of the sensor; lastCheckTime is not
\* written
setupFlame(s, flameDetected) ==
  [beepBuzzerAlertFlame(updateIndicatorStatusFlame(s, flameDetected), flameDetected)
     EXCEPT !.pc = "loop"]

\* loop() at millis() = now; its second millis() call returns the same time
loopFlame(s, now, flameDetected) ==
  IF GeU32(Elapsed(now, s.lastCheckTime), SENSOR_READ_INTERVAL)
    THEN beepBuzzerAlertFlame(
           updateIndicatorStatusFlame([s EXCEPT !.lastCheckTime = now], flameDetected),
           flameDetected)
    ELSE s

(***************************************************************************)
(* Chapter 8, Air_Pressure_BM180/src/main.cpp: LEDController (one pixel),  *)
(* BuzzerController and loop().  pixel is the colour last shown, beep the  *)
(* last alert handed to the buzzer.                                        *)
(***************************************************************************)
READ_INTERVAL == 5000
blinkIntervalBM180 == 500
lowPressureThreshold == Num(450)
mediumPressureThreshold == Num(650)
highPressureThreshold == Num(1013)

InitBM180 ==
  [ pc |-> "loop", lastReadTime |-> U32(0), lastBlinkTime |-> U32(0),
    ledState |-> FALSE, pixel |-> "Off", beep |-> "none" ]

setColor(s, color) == [s EXCEPT !.pixel = color]

blinkLED(s, color, currentMillis) ==
  IF GeU32(Elapsed(currentMillis, s.lastBlinkTime), blinkIntervalBM180)
    THEN [s EXCEPT !.ledState = ~s.ledState,
                   !.pixel = IF ~s.ledState THEN "Red" ELSE "Off",
                   !.lastBlinkTime = currentMillis]
    ELSE s

beep(s, type) == [s EXCEPT !.beep = type]

\* loop() at millis() = now; beginOk is what bmp.begin() returns and pressure
\* is bmp.readPressure() / 100.0, when this call samples
loopBM180(s, now, beginOk, pressure) ==
  IF GeU32(Elapsed(now, s.lastReadTime), READ_INTERVAL)
    THEN LET a == [s EXCEPT !.lastReadTime = now]
         IN  IF ~beginOk THEN beep(setColor(a, "Red"), "ALERT_ERROR")
             ELSE IF Lt(pressure, lowPressureThreshold)
               THEN beep(blinkLED(a, "Red", now), "ALERT_HIGH")
             ELSE IF Gt(pressure, lowPressureThreshold) /\ Le(pressure, mediumPressureThreshold)
               THEN beep(setColor(a, "Green"), "ALERT_LOW")
             ELSE IF Gt(pressure, mediumPressureThreshold) /\ Le(pressure, highPressureThreshold)
               THEN beep(setColor(a, "Blue"), "ALERT_MEDIUM")
             ELSE a
    ELSE s

(***************************************************************************)
(* Chapter 8, ESP32C6-Builtin-Temp/src/main.cpp: LEDController,            *)
(* TemperatureSensor::readTemperature and loop().  strip is the colour the *)
(* pixel shows, currentLEDColor the member setColor keeps, beep the last   *)
(* alert handed to the buzzer.                                             *)
(***************************************************************************)
readIntervalBuiltin == 5000
blinkIntervalBuiltin == 500

InitBuiltin ==
  [ pc |-> "loop", lastReadTime |-> U32(0), lastErrorTime |-> U32(0),
    lastBlinkTime |-> U32(0), ledState |-> FALSE,
    currentLEDColor |-> "Off", strip |-> "Off", beep |-> "none", state |-> "none" ]

setColorBuiltin(s, color) == [s EXCEPT !.currentLEDColor = color, !.strip = color]

handleBlink(s, blinkColor, currentMillis) ==
  IF s.currentLEDColor # blinkColor /\ ~s.ledState THEN s
  ELSE IF GeU32(Elapsed(currentMillis, s.lastBlinkTime), blinkIntervalBuiltin)
    THEN [s EXCEPT !.lastBlinkTime = currentMillis, !.ledState = ~s.ledState,
                   !.strip = IF ~s.ledState THEN blinkColor ELSE "Off",
                   !.beep = IF ~s.ledState THEN "ALERT_HIGH" ELSE "ALERT_MUTE"]
  ELSE s

\* loop() at millis() = now.  When this call samples, readTemperature
\* returns NAN during the 6000 ms after lastErrorTime; otherwise resultOk is
\* whether temperature_sensor_get_celsius returned ESP_OK and temperature the
\* value it stored.  The switch has no case for High.  The field state keeps
\* the local of that name from the last sample.
loopBuiltin(s, now, resultOk, temperature) ==
  IF GeU32(Elapsed(now, s.lastReadTime), readIntervalBuiltin)
    THEN LET a == [s EXCEPT !.lastReadTime = now]
             cooldown == ~GeU32(Elapsed(now, a.lastErrorTime), 6000)
             b == IF ~cooldown /\ ~resultOk THEN [a EXCEPT !.lastErrorTime = now] ELSE a
             temperatureC == IF cooldown \/ ~resultOk THEN NaN ELSE temperature
             state == getTemperatureState(temperatureC)
             c == IF state = "Low" THEN beep(setColorBuiltin(b, "Blue"), "ALERT_LOW")
                  ELSE IF state = "Normal" THEN beep(setColorBuiltin(b, "Green"), "ALERT_MUTE")
                  ELSE IF state = "Error" THEN beep(setColorBuiltin(b, "Red"), "ALERT_ERROR")
                  ELSE b
         IN  handleBlink([c EXCEPT !.state = state], "Red", now)
    ELSE handleBlink(s, "Red", now)

(***************************************************************************)
(* The flame and air-pressure sketches with their timers, one call of      *)
(* setup() or loop() per step.  obs holds the samples taken so far, whether *)
(* the last step sampled, the time of the last sample, whether the last    *)
(* pressure read was below the low threshold, the state the last           *)
(* temperature sample was classified as, and failed: whether a read of the *)
(* temperature sensor has failed so far, in the air-pressure sketch whether *)
(* bmp.begin() failed at the last sample.                                  *)
(***************************************************************************)
SamplerSketches == {"Flame", "BM180", "Builtin"}
SampleIntervalOf(k) ==
  IF k = "Flame" THEN SENSOR_READ_INTERVAL
  ELSE IF k = "BM180" THEN READ_INTERVAL
  ELSE readIntervalBuiltin

\* millis() at the sensor read of setup(): the first millisecond or later
SetupDelays == {0, Quantum}

\* bmp.readPressure() / 100.0 around every threshold
PressureValues == {Num(400), Num(450), Num(500), Num(650), Num(700), Num(1013), Num(1100)}

InitSampler ==
  /\ sketch \in SamplerSketches
  /\ millis = U32(0)
  /\ st = IF sketch = "Flame" THEN InitFlame
          ELSE IF sketch = "BM180" THEN InitBM180
          ELSE InitBuiltin
  /\ obs = [samples |-> 0, sampled |-> FALSE, lastAt |-> U32(0), low |-> FALSE, state |-> "none", failed |-> FALSE]

\* the model follows the program until the last sample the bound allows and
\* for two blink intervals after it
CanCallSampler(now) ==
  \/ obs.samples < MaxSamples
  \/ ~GtU32(Elapsed(now, obs.lastAt), 2 * blinkIntervalBM180)

\* between two samples the calls of loop() change nothing in the flame
\* sketch: the model goes on with the calls around the next sample
SamplerCallDelays(k, s, t) ==
  IF k = "Flame" /\ ~GeU32(AddU32(Elapsed(t, s.lastCheckTime), 2 * blinkInterval), SENSOR_READ_INTERVAL)
    THEN {SENSOR_READ_INTERVAL - 2 * blinkInterval - MsOf(Elapsed(t, s.lastCheckTime))}
  ELSE IF k = "Builtin" THEN {blinkIntervalBuiltin \div 2, blinkIntervalBuiltin}
  ELSE TimeSteps

SetupFlame ==
  /\ sketch = "Flame" /\ st.pc = "setup"
  /\ \E d \in SetupDelays, flameDetected \in BOOLEAN :
       /\ millis' = AddU32(millis, d)
       /\ st' = setupFlame(st, flameDetected)
       /\ obs' = [samples |-> obs.samples + 1, sampled |-> TRUE, lastAt |-> millis', low |-> FALSE, state |-> "none", failed |-> FALSE]
  /\ UNCHANGED sketch

LoopFlame ==
  /\ sketch = "Flame" /\ st.pc = "loop"
  /\ \E d \in SamplerCallDelays(sketch, st, millis) :
       LET now == AddU32(millis, d)
           due == GeU32(Elapsed(now, st.lastCheckTime), SENSOR_READ_INTERVAL)
       IN  /\ CanCallSampler(now)
           /\ millis' = now
           /\ \E flameDetected \in IF due THEN BOOLEAN ELSE {FALSE} :
                st' = loopFlame(st, now, flameDetected)
           /\ obs' = IF due
                       THEN [samples |-> obs.samples + 1, sampled |-> TRUE, lastAt |-> now, low |-> FALSE, state |-> "none", failed |-> FALSE]
                       ELSE [obs EXCEPT !.sampled = FALSE]
  /\ UNCHANGED sketch

LoopBM180 ==
  /\ sketch = "BM180"
  /\ \E d \in SamplerCallDelays(sketch, st, millis) :
       LET now == AddU32(millis, d)
           due == GeU32(Elapsed(now, st.lastReadTime), READ_INTERVAL)
       IN  /\ CanCallSampler(now)
           /\ millis' = now
           /\ \E beginOk \in IF due THEN BOOLEAN ELSE {TRUE} :
              \E pressure \in IF due /\ beginOk THEN PressureValues ELSE {NaN} :
                /\ st' = loopBM180(st, now, beginOk, pressure)
                /\ obs' = IF due
                            THEN [samples |-> obs.samples + 1, sampled |-> TRUE, lastAt |-> now,
                                  low |-> beginOk /\ pressure.v < 450, state |-> "none",
                                  failed |-> ~beginOk]
                            ELSE [obs EXCEPT !.sampled = FALSE]
  /\ UNCHANGED sketch

\* the values temperature_sensor_get_celsius stores lie around both thresholds
LoopBuiltin ==
  /\ sketch = "Builtin"
  /\ \E d \in SamplerCallDelays(sketch, st, millis) :
       LET now == AddU32(millis, d)
           due == GeU32(Elapsed(now, st.lastReadTime), readIntervalBuiltin)
       IN  /\ CanCallSampler(now)
           /\ millis' = now
           /\ \E resultOk \in IF due THEN BOOLEAN ELSE {TRUE} :
              \E temperature \in IF due /\ resultOk THEN {Num(14), Num(15), Num(25), Num(26)} ELSE {NaN} :
                /\ st' = loopBuiltin(st, now, resultOk, temperature)
                /\ obs' = IF due
                            THEN [samples |-> obs.samples + 1, sampled |-> TRUE, lastAt |-> now,
                                  low |-> FALSE, state |-> st'.state,
                                  failed |-> obs.failed \/ st'.lastErrorTime # st.lastErrorTime]
                            ELSE [obs EXCEPT !.sampled = FALSE]
  /\ UNCHANGED sketch

NextSampler == SetupFlame \/ LoopFlame \/ LoopBM180 \/ LoopBuiltin

SpecSampler == InitSampler /\ [][NextSampler]_vars

\* C15: the sensor is sampled no more often than its read interval: the
\* first sample after boot is taken when at least one interval has elapsed
\* on millis(), and every later sample at least one interval after the
\* sample before it.
C15_SamplesSpacedByInterval ==
  [][ obs'.samples > obs.samples =>
        IF obs.samples = 0
          THEN GeU32(millis', SampleIntervalOf(sketch))
          ELSE GeU32(Elapsed(millis', obs.lastAt), SampleIntervalOf(sketch))
    ]_vars

\* C16: in the Air_Pressure_BM180 sketch, while the pressure last read is
\* below the low threshold, every call of loop() that comes blinkInterval
\* (500 ms) or more after the last toggle toggles the LED phase, whether or
\* not the call samples.
C16_BlinkOnOwnCadence ==
  [][ (sketch = "BM180" /\ obs.low /\ obs'.low
         /\ GeU32(Elapsed(millis', st.lastBlinkTime), blinkIntervalBM180))
        => st'.ledState = ~st.ledState
    ]_vars

\* C25: in the ESP32C6-Builtin-Temp sketch, from a sample classified High
\* until the next sample, every call of loop() that comes blinkInterval
\* (500 ms) or more after the last toggle toggles the pixel between red and
\* off, whatever the sample before was classified as.
C25_HighBlinksRed ==
  [][ (sketch = "Builtin" /\ obs'.state = "High"
         /\ GeU32(Elapsed(millis', st.lastBlinkTime), blinkIntervalBuiltin))
        => /\ st'.ledState = ~st.ledState
           /\ st'.strip = IF st'.ledState THEN "Red" ELSE "Off"
    ]_vars

\* C26: in the ESP32C6-Builtin-Temp sketch, from a sample classified Error
\* until the next sample the pixel shows red: the blink step does not switch
\* it off.
C26_ErrorIsSteadyRed ==
  (sketch = "Builtin" /\ obs.state = "Error") => st.strip = "Red"

\* C37: in the Air_Pressure_BM180 sketch every sample whose pressure could be
\* read takes one of the three indication branches: it ends as blinkLED with
\* the high alert, as steady green with the low alert or as steady blue with
\* the medium alert would leave it, so that the LED and the buzzer never keep
\* the indication of an older sample.
C37_EveryPressureIndicated ==
  [][ (sketch = "BM180" /\ obs'.sampled /\ ~obs'.failed) =>
        LET a == [st EXCEPT !.lastReadTime = millis']
        IN  st' \in { beep(blinkLED(a, "Red", millis'), "ALERT_HIGH"),
                      beep(setColor(a, "Green"), "ALERT_LOW"),
                      beep(setColor(a, "Blue"), "ALERT_MEDIUM") }
    ]_vars

\* C35: in the ESP32C6-Builtin-Temp sketch a sample is classified Error
\* (readTemperature returned NaN) only when the sensor read of that sample
\* failed or a sensor read failed less than 6000 ms before it; the first
\* sample after boot is not an Error when the sensor works.  obs.failed is
\* whether a sensor read has failed so far; readTemperature writes the time
\* of a failed read, and nothing else, to lastErrorTime.
C35_ErrorOnlyAfterFailure ==
  (sketch = "Builtin" /\ obs.sampled /\ obs.state = "Error") =>
    /\ obs.failed
    /\ ~GeU32(Elapsed(millis, st.lastErrorTime), 6000)

\* C34: in the ESP32C6-Builtin-Temp sketch the strip is green from a sample
\* classified Normal until the next sample, and blue from a sample classified
\* Low until the next sample: handleBlink does not overwrite the colour the
\* latest sample set.
C34_SteadyColourKept ==
  sketch = "Builtin" =>
    /\ obs.state = "Normal" => st.strip = "Green"
    /\ obs.state = "Low" => st.strip = "Blue"

(***************************************************************************)
(* Chapter 14: the control loop and the MQTT publish.  Over Spec.          *)
(***************************************************************************)
\* C17: in Chapter 14, while blinking is enabled, a loop iteration reaches
\* its blink step whatever the MQTT connection does: no iteration is still
\* inside mqttPublishMessage a reconnect delay (3000 ms, thirty blink
\* intervals) after it sampled, with the toggle of the LED still to come.
C17_LoopNeverBlocks ==
  (sketch = "Ch14" /\ Running /\ st.shouldBlink) =>
    \/ st.pc = "loop"
    \/ ~GeU32(Elapsed(millis, st.lastCheckTime), MQTT_RECONNECT_DELAY_MS)

\* the sampler, classifier and indicator globals a publish has no business
\* with; lastBlinkTime is looked at on its own because the blink step that
\* follows the publish stamps it
PublishFrame(s) ==
  <<s.currentCondition, s.sensorErrorCount, s.shouldBlink, s.blinkingLED, s.lastCheckTime>>

\* lastBlinkTime moves in this step only by a toggle of ledBlinking
StampedByBlinkOnly ==
  st'.lastBlinkTime # st.lastBlinkTime =>
    (st'.pc = "loop" /\ st'.shouldBlink /\ st'.lastBlinkTime = millis' /\ st'.ledState # st.ledState)

\* C18: in Chapter 14 mqttPublishMessage leaves currentCondition,
\* sensorErrorCount, shouldBlink, blinkingLED, lastCheckTime and lastBlinkTime
\* alone, whether it publishes, fails to publish or has to reconnect: a loop
\* iteration that calls it ends (or waits in connectAWS) with these globals
\* as checkSensorReadings left them, and the time spent in connectAWS
\* changes none of them; only the blink step after it stamps lastBlinkTime.
C18_PublishKeepsState ==
  [][ sketch = "Ch14" =>
        /\ st.pc = "connectAWS" =>
              (PublishFrame(st') = PublishFrame(st) /\ StampedByBlinkOnly)
        /\ (st.pc = "loop" /\ (obs'.sent # NoMessage \/ st'.pc = "connectAWS")) =>
              /\ \E r \in LoopReadings :
                    /\ TagOf(r) = obs'.tag
                    /\ PublishFrame(st') =
                         PublishFrame(checkSensorReadings14([st EXCEPT !.lastCheckTime = millis'], r))
              /\ StampedByBlinkOnly
    ]_vars

\* a publish that had to reconnect first and then failed, while blinking
C18_Witness ==
  /\ sketch = "Ch14" /\ obs.failures > 0
  /\ obs.sent # NoMessage /\ ~obs.sent.ok
  /\ st.pc = "loop" /\ st.shouldBlink /\ st.restarts = 0

ConditionStatus == {"Normal", "BelowNormal", "AboveNormal", "Error"}

\* C20: in Chapter 14 currentCondition always holds exactly one of the four
\* values of its enum; once a sample has been classified (and has not
\* restarted the device) it is the condition of that sample's reading, and
\* every published message carries that condition's string as its status:
\* Normal, Below Normal, Above Normal or Error.
C20_StatusIsCurrentTag ==
  sketch = "Ch14" =>
    /\ st.currentCondition \in ConditionStatus
    /\ (obs.tag # "none" /\ st.restarts = 0) =>
          <<obs.tag, st.currentCondition>> \in
            { <<"Normal", "Normal">>, <<"BelowRange", "BelowNormal">>,
              <<"AboveRange", "AboveNormal">>, <<"SensorError", "Error">> }
    /\ obs.sent # NoMessage =>
          /\ st.restarts = 0
          /\ <<obs.tag, obs.sent.status>> \in
               { <<"Normal", "Normal">>, <<"BelowRange", "Below Normal">>,
                 <<"AboveRange", "Above Normal">>, <<"SensorError", "Error">> }

\* a below-range sample published after a sample with a failed read
C20_Witness ==
  /\ sketch = "Ch14" /\ obs.samples >= 2 /\ obs.tag = "BelowRange"
  /\ obs.sent # NoMessage /\ obs.sent.ok /\ obs.sent.status = "Below Normal"
  /\ st.currentCondition = "BelowNormal" /\ st.sensorErrorCount > 0

\* C32: in Chapter 14 a message is published only in the cycle of a sample
\* classified Normal, Below Normal or Above Normal: its status is never
\* Error, and the sample of its cycle is not one that was tagged as a sensor
\* error (the samples that increment sensorErrorCount).
C32_NoErrorMessage ==
  (sketch = "Ch14" /\ obs.sent # NoMessage) =>
    /\ obs.sent.status \in {"Normal", "Below Normal", "Above Normal"}
    /\ obs.tag \in {"Normal", "BelowRange", "AboveRange"}

\* C24: classification is a function of the reading alone.  In Chapter 11-14
\* a sample leaves the condition (blinking or not, the LED that blinks, LED
\* D5, currentCondition) that the same reading yields on the freshly booted
\* sketch, whatever the previous condition, failure count and LED state were;
\* the failure count only decides whether a failed read restarts the device
\* instead.  getTemperatureState depends on the temperature only.
C24_TagIsFunctionOfReading ==
  [][ /\ sketch \in LoopSketches =>
           LET fresh == sampleLoop(sketch, InitSt(sketch), obs'.reading)
               Tag(s) == <<s.shouldBlink, IF s.shouldBlink THEN s.blinkingLED ELSE "none",
                           s.ledD5, s.currentCondition>>
           IN  IF st'.restarts = 0 THEN Tag(st') = Tag(fresh)
               ELSE ErrorRendered(sketch, fresh)
      /\ sketch = "Builtin" =>
           st'.state = getTemperatureState(obs'.reading.temperatureC)
    ]_vars

\* a normal reading classified in Chapter 14 after failed and range samples
C24_Witness ==
  /\ sketch = "Ch14" /\ obs.classified /\ NormalRendered(sketch, st)
  /\ st.sensorErrorCount = 2 /\ st.blinkingLED # InitSt(sketch).blinkingLED

(***************************************************************************)
(* The connection sequences of setup() in Chapter 12, 13 and 14:           *)
(* connectToWiFi, then initNTP / syncNTP, then (Chapter 13 and 14)         *)
(* connectAWS.  One step is one pass of the function's retry loop or its   *)
(* exit.  Here st holds                                                    *)
(*   pc        the function setup() is in ("loop": setup has returned,     *)
(*             "restart": ESP.restart() was called)                        *)
(*   attempts  the local of connectToWiFi                                  *)
(*   d4, buzzer  the duty last written to LED D4 and to the buzzer         *)
(* and obs counts what the environment did: the time connectToWiFi spent   *)
(* in its retry delays, the last WiFi.status() it read, the failed         *)
(* getLocalTime and mqttClient.connect calls and the successful connects.  *)
(***************************************************************************)
MaxStartupFailures == 3

MAX_WIFI_CONNECT_ATTEMPTS == 3
ESP32_REBOOT_DELAY_MS == 5000
NTP_SYNC_DELAY_MS == 1000

InitStartup ==
  /\ sketch \in {"Ch12", "Ch13", "Ch14"}
  /\ millis = U32(0)
  /\ st = [pc |-> "connectToWiFi", attempts |-> 0, d4 |-> SYS_LED_OFF,
           buzzer |-> BUZZER_OFF, restarts |-> 0]
  /\ obs = [wifiWaited |-> 0, wifiStatus |-> FALSE, ntpFailures |-> 0,
            awsFailures |-> 0, awsConnects |-> 0]

\* variant for C21: after the last attempt the function returns whatever the
\* WiFi status is
connectToWiFi_GivesUp(s, connected, stillConnected) ==
  IF ~connected /\ s.attempts < MAX_WIFI_CONNECT_ATTEMPTS
    THEN [s EXCEPT !.attempts = @ + 1, !.d4 = SYS_LED_ON, !.buzzer = BUZZER_VOLUME_HALF]
    ELSE [s EXCEPT !.d4 = SYS_LED_OFF, !.buzzer = BUZZER_OFF, !.pc = "initNTP"]

\* connected: WiFi.status() == WL_CONNECTED as the while condition reads it;
\* stillConnected: the same as the if after the loop reads it
connectToWiFi(s, connected, stillConnected) ==
  IF ~connected /\ s.attempts < MAX_WIFI_CONNECT_ATTEMPTS
    THEN [s EXCEPT !.attempts = @ + 1, !.d4 = SYS_LED_ON, !.buzzer = BUZZER_VOLUME_HALF]
  ELSE IF stillConnected
    THEN [s EXCEPT !.d4 = SYS_LED_OFF, !.buzzer = BUZZER_OFF, !.pc = "initNTP"]
  ELSE [s EXCEPT !.restarts = @ + 1, !.pc = "restart"]

\* gotTime: the result of getLocalTime(&timeinfo); Chapter 12 has no
\* connectAWS
initNTP(k, s, gotTime) ==
  IF ~gotTime THEN s
  ELSE [s EXCEPT !.pc = IF k = "Ch12" THEN "loop" ELSE "connectAWS"]

\* variant for C22: connectAWS returns after a failed connect
setupConnectAWS_GivesUp(s, connects) ==
  [s EXCEPT !.pc = "loop"]

\* connectAWS as setup() calls it; connects: the result of
\* mqttClient.connect(deviceID.c_str())
setupConnectAWS(s, connects) ==
  IF ~connects THEN s ELSE [s EXCEPT !.pc = "loop"]

ConnectToWiFi ==
  /\ st.pc = "connectToWiFi"
  /\ \E connected \in BOOLEAN, stillConnected \in BOOLEAN :
       LET t == connectToWiFi(st, connected, stillConnected)
           retry == t.pc = "connectToWiFi"
       IN  /\ st' = t
           /\ millis' = AddU32(millis, IF retry THEN WIFI_CONNECT_RETRY_DELAY_MS
                                       ELSE IF t.pc = "restart" THEN ESP32_REBOOT_DELAY_MS
                                       ELSE 0)
           /\ obs' = [obs EXCEPT
                        !.wifiWaited = IF retry THEN @ + WIFI_CONNECT_RETRY_DELAY_MS ELSE @,
                        !.wifiStatus = IF retry THEN connected ELSE stillConnected]
  /\ UNCHANGED sketch

InitNTP ==
  /\ st.pc = "initNTP"
  /\ \E gotTime \in BOOLEAN :
       /\ ~gotTime => obs.ntpFailures < MaxStartupFailures
       /\ st' = initNTP(sketch, st, gotTime)
       /\ millis' = AddU32(millis, IF gotTime THEN 0 ELSE NTP_SYNC_DELAY_MS)
       /\ obs' = [obs EXCEPT !.ntpFailures = IF gotTime THEN @ ELSE @ + 1]
  /\ UNCHANGED sketch

SetupConnectAWS ==
  /\ st.pc = "connectAWS"
  /\ \E connects \in BOOLEAN :
       /\ ~connects => obs.awsFailures < MaxStartupFailures
       /\ st' = setupConnectAWS(st, connects)
       /\ millis' = AddU32(millis, IF st'.pc = "connectAWS" THEN MQTT_RECONNECT_DELAY_MS ELSE 0)
       /\ obs' = [obs EXCEPT !.awsFailures = IF connects THEN @ ELSE @ + 1,
                             !.awsConnects = IF connects THEN @ + 1 ELSE @]
  /\ UNCHANGED sketch

SpecStartup == InitStartup /\ [][ConnectToWiFi \/ InitNTP \/ SetupConnectAWS]_vars

\* C21: connectToWiFi of Chapter 12, 13 and 14 makes at most three attempts
\* and waits at most three times 5000 ms for the connection; when it has
\* returned, the WiFi status it read last was connected and LED D4 and the
\* buzzer are off; when it ended in ESP.restart(), the status it read last
\* was not connected; and once three attempts are made the next step leaves
\* the function: it returns if WiFi is connected and restarts if it is not.
C21_WiFiBoundedAttempts ==
  /\ st.attempts <= MAX_WIFI_CONNECT_ATTEMPTS
  /\ obs.wifiWaited = st.attempts * WIFI_CONNECT_RETRY_DELAY_MS
  /\ obs.wifiWaited <= 3 * 5000
  /\ st.pc \notin {"connectToWiFi", "restart"} =>
       (obs.wifiStatus /\ st.d4 = SYS_LED_OFF /\ st.buzzer = BUZZER_OFF /\ st.restarts = 0)
  /\ st.pc = "restart" => (~obs.wifiStatus /\ st.restarts = 1)
  /\ (st.pc = "connectToWiFi" /\ st.attempts = MAX_WIFI_CONNECT_ATTEMPTS) =>
       \A connected \in BOOLEAN, stillConnected \in BOOLEAN :
          connectToWiFi(st, connected, stillConnected).pc =
            IF stillConnected THEN "initNTP" ELSE "restart"

\* connected at the check after the third attempt: the function has
\* returned with D4 and the buzzer switched off again
C21_Witness ==
  /\ st.pc = "initNTP" /\ st.attempts = MAX_WIFI_CONNECT_ATTEMPTS
  /\ obs.wifiWaited = 15000 /\ obs.wifiStatus /\ st.d4 = SYS_LED_OFF

\* C22: connectAWS of Chapter 13 and 14, called from setup(), has returned
\* only after a connect succeeded, waits 3000 ms after every failed connect,
\* never restarts the device, and after any number of failed connects it is
\* still inside, about to try again.
C22_AwsRetriesUntilConnected ==
  [][ st.pc = "connectAWS" =>
        /\ st'.restarts = 0 /\ st'.pc \in {"connectAWS", "loop"}
        /\ st'.pc = "loop" <=>
             (obs'.awsConnects = 1 /\ obs'.awsFailures = obs.awsFailures /\ millis' = millis)
        /\ st'.pc = "connectAWS" <=>
             (obs'.awsConnects = 0 /\ obs'.awsFailures = obs.awsFailures + 1
                /\ millis' = AddU32(millis, MQTT_RECONNECT_DELAY_MS))
    ]_vars

\* every connect so far has failed and connectAWS is still retrying
C22_Witness ==
  /\ st.pc = "connectAWS" /\ obs.awsFailures = MaxStartupFailures
  /\ obs.awsConnects = 0 /\ st.restarts = 0

\* C23: the NTP synchronisation of setup() (initNTP in Chapter 12 and 14,
\* syncNTP in Chapter 13) is left, by returning or by restarting, by the time
\* MaxStartupFailures calls of getLocalTime have failed.
C23_NtpBoundedRetries ==
  st.pc = "initNTP" => obs.ntpFailures < MaxStartupFailures

(***************************************************************************)
(* Chapter 8, ESP32C6-RGB-LED/src/main.cpp (LedController and loop) and    *)
(* Distance_HC-SR04/main.cpp, with their timers: one call of loop() per    *)
(* step.  In the RGB sketch pixel is the colour last set and log the last  *)
(* line printed; obs counts the calls of simulateError and tells whether   *)
(* the last step made one.  In the distance sketch distances are in        *)
(* thousandths of a centimetre (duration * 0.017 cm is duration * 17);     *)
(* obs counts the samples and tells whether the last one received an echo. *)
(***************************************************************************)
MaxSimulatedErrors == 2

intervalRGB == 1000
errorIntervalRGB == 15000
SENSOR_READ_INTERVAL_HCSR04 == 1000
CLOSE_RANGE == 10
MID_RANGE == 30

updateLed(s, currentMillis) ==
  IF GeU32(Elapsed(currentMillis, s.previousMillis), intervalRGB)
    THEN LET a == [s EXCEPT !.previousMillis = currentMillis]
         IN  IF a.currentLedState = "GREEN"
               THEN [a EXCEPT !.pixel = "greenColor", !.log = "Current LED color: Green",
                              !.currentLedState = "BLUE"]
             ELSE IF a.currentLedState = "BLUE"
               THEN [a EXCEPT !.pixel = "blueColor", !.log = "Current LED color: Blue",
                              !.currentLedState = "RED"]
             ELSE IF a.currentLedState = "RED"
               THEN [a EXCEPT !.pixel = "redColor", !.log = "Current LED color: Red",
                              !.currentLedState = "GREEN"]
             ELSE [a EXCEPT !.pixel = "redColor", !.log = "Error: LED read failure"]
    ELSE s

simulateError(s, currentMillis) ==
  [updateLed([s EXCEPT !.currentLedState = "ERROR"], currentMillis)
     EXCEPT !.currentLedState = "GREEN"]

\* loop() of the RGB sketch: now is millis() as updateLed and the test of the
\* error timer read it, later is millis() inside simulateError and at the
\* store to lastErrorTime
loopRGB(s, now, later) ==
  LET a == updateLed(s, now)
  IN  IF GtU32(Elapsed(now, a.lastErrorTime), errorIntervalRGB)
        THEN [simulateError(a, later) EXCEPT !.lastErrorTime = later]
        ELSE a

\* updateIndicatorStatus with setLEDState and beepBuzzerAlert
updateIndicatorStatusHCSR04(s, distance) ==
  [s EXCEPT !.lastRedState = distance < CLOSE_RANGE * 1000,
            !.lastGreenState = distance > MID_RANGE * 1000,
            !.lastBlueState = distance >= CLOSE_RANGE * 1000 /\ distance <= MID_RANGE * 1000,
            !.isBuzzerOn = distance < MID_RANGE * 1000]

\* loop() of the distance sketch; duration is what pulseIn(ECHO_PIN, HIGH,
\* 30000) returns, 0 when no echo came within the timeout.
\* readUltrasoundSensor writes currentDistance, which starts as 0.0, only
\* when duration > 0.
loopHCSR04(s, now, duration) ==
  IF GeU32(Elapsed(now, s.lastCheckTime), SENSOR_READ_INTERVAL_HCSR04)
    THEN LET currentDistance == IF duration > 0 THEN duration * 17 ELSE 0
         IN  updateIndicatorStatusHCSR04([s EXCEPT !.lastCheckTime = now], currentDistance)
    ELSE s

\* Chapter 8, PIR_Motion_Detection_SR501/src/main.cpp: a motion sensor read
\* on a 1000 ms timer; the LED is written only when the input has changed.
checkIntervalPIR == 1000
blinkIntervalPIR == 500

\* LEDController::blinkLED
blinkLEDPIR(s, currentMillis) ==
  IF GeU32(Elapsed(currentMillis, s.lastBlinkTime), blinkIntervalPIR)
    THEN [s EXCEPT !.ledState = ~s.ledState,
                   !.pixel = IF ~s.ledState THEN "redColor" ELSE "offColor",
                   !.lastBlinkTime = currentMillis]
    ELSE s

\* loop() of the motion sketch; motionDetected is digitalRead(SENSOR_PIN)
loopPIR(s, now, motionDetected) ==
  IF GeU32(Elapsed(now, s.lastCheckTime), checkIntervalPIR)
    THEN LET a == [s EXCEPT !.lastCheckTime = now]
         IN  IF motionDetected # a.previousMotionDetected
               THEN LET b == IF motionDetected
                               THEN [blinkLEDPIR(a, now) EXCEPT !.beeps = TRUE]
                               ELSE [a EXCEPT !.pixel = "greenColor", !.beeps = FALSE]
                    IN  [b EXCEPT !.previousMotionDetected = motionDetected]
               ELSE a
    ELSE s

InitDemo ==
  /\ sketch \in {"RGBLed", "HCSR04", "PIR"}
  /\ millis = U32(0)
  /\ st = IF sketch = "RGBLed"
            THEN [ currentLedState |-> "GREEN", previousMillis |-> U32(0),
                   lastErrorTime |-> U32(0), pixel |-> "offColor", log |-> "none" ]
            ELSE IF sketch = "HCSR04"
            THEN [ lastCheckTime |-> U32(0), lastRedState |-> FALSE, lastGreenState |-> FALSE,
                   lastBlueState |-> FALSE, isBuzzerOn |-> FALSE ]
            ELSE [ lastCheckTime |-> U32(0), previousMotionDetected |-> FALSE,
                   lastBlinkTime |-> U32(0), ledState |-> FALSE, pixel |-> "offColor",
                   beeps |-> FALSE ]
  /\ obs = IF sketch = "RGBLed"
             THEN [errors |-> 0, simulated |-> FALSE]
             ELSE IF sketch = "HCSR04"
             THEN [samples |-> 0, sampled |-> FALSE, echo |-> TRUE]
             ELSE [samples |-> 0, sampled |-> FALSE, motion |-> FALSE]

\* the calls come half an interval, or one millisecond less than an
\* interval, after the call before; millis() may advance by a millisecond
\* between the two reads of a call that simulates the error
LoopRGB ==
  /\ sketch = "RGBLed" /\ obs.errors < MaxSimulatedErrors
  /\ \E d \in {intervalRGB \div 2, intervalRGB - 1} :
       LET now == AddU32(millis, d)
           simulates == GtU32(Elapsed(now, updateLed(st, now).lastErrorTime), errorIntervalRGB)
       IN  \E e \in IF simulates THEN {0, 1} ELSE {0} :
             /\ millis' = AddU32(now, e)
             /\ st' = loopRGB(st, now, AddU32(now, e))
             /\ obs' = [errors |-> IF simulates THEN obs.errors + 1 ELSE obs.errors,
                        simulated |-> simulates]
  /\ UNCHANGED sketch

\* echoes from 5.1 cm, 17 cm and 34 cm, and no echo
LoopHCSR04 ==
  /\ sketch = "HCSR04" /\ obs.samples < MaxSamples
  /\ \E d \in {SENSOR_READ_INTERVAL_HCSR04 \div 2, SENSOR_READ_INTERVAL_HCSR04} :
       LET now == AddU32(millis, d)
           due == GeU32(Elapsed(now, st.lastCheckTime), SENSOR_READ_INTERVAL_HCSR04)
       IN  /\ millis' = now
           /\ \E duration \in IF due THEN {0, 300, 1000, 2000} ELSE {0} :
                /\ st' = loopHCSR04(st, now, duration)
                /\ obs' = IF due
                            THEN [samples |-> obs.samples + 1, sampled |-> TRUE, echo |-> duration > 0]
                            ELSE [obs EXCEPT !.sampled = FALSE]
  /\ UNCHANGED sketch

\* the calls come half a check interval or a whole one after the call before
LoopPIR ==
  /\ sketch = "PIR" /\ obs.samples < MaxSamples
  /\ \E d \in {checkIntervalPIR \div 2, checkIntervalPIR} :
       LET now == AddU32(millis, d)
           due == GeU32(Elapsed(now, st.lastCheckTime), checkIntervalPIR)
       IN  /\ millis' = now
           /\ \E motionDetected \in IF due THEN BOOLEAN ELSE {FALSE} :
                /\ st' = loopPIR(st, now, motionDetected)
                /\ obs' = IF due
                            THEN [samples |-> obs.samples + 1, sampled |-> TRUE,
                                  motion |-> motionDetected]
                            ELSE [obs EXCEPT !.sampled = FALSE]
  /\ UNCHANGED sketch

SpecDemo == InitDemo /\ [][LoopRGB \/ LoopHCSR04 \/ LoopPIR]_vars

\* C28: in the ESP32C6-RGB-LED sketch every call of simulateError ends with
\* the pixel set to red and the error line as the last line logged.
C28_SimulateErrorShowsRed ==
  [][ (sketch = "RGBLed" /\ obs'.simulated) =>
        (st'.pixel = "redColor" /\ st'.log = "Error: LED read failure")
    ]_vars

\* C29: in the Distance_HC-SR04 sketch a sample that received no echo does
\* not render the close-range indication: the red LED with the buzzer on.
C29_NoEchoNotCloseRange ==
  (sketch = "HCSR04" /\ obs.samples > 0 /\ ~obs.echo) =>
    ~(st.lastRedState /\ st.isBuzzerOn)

\* C36: in the PIR_Motion_Detection_SR501 sketch, after every sample at
\* which the motion input has changed the pixel shows the colour of the new
\* input: red when it changed to detected, green when it changed to not
\* detected.
C36_ChangeShowsItsColour ==
  [][ (sketch = "PIR" /\ obs'.sampled
         /\ st'.previousMotionDetected # st.previousMotionDetected) =>
        st'.pixel = IF st'.previousMotionDetected THEN "redColor" ELSE "greenColor"
    ]_vars

(***************************************************************************)
(* The Chapter 11-14 control loops across the wrap of millis() at 2^32,    *)
(* some 49.7 days after boot.  The run starts with the last sample before  *)
(* the wrap, an above-range one taken 2950 ms before it, so that both the  *)
(* sample timer and the blink timer hold a timestamp from before the wrap  *)
(* when millis() starts again at 0.                                        *)
(***************************************************************************)
InitWrap ==
  LET WrapStart == [hi |-> W16 - 1, lo |-> W16 - 2950] IN
  /\ sketch \in LoopSketches
  /\ millis = WrapStart
  /\ LET r == [humidity |-> Num(40), temperatureC |-> Num(26), temperatureF |-> convertCtoF(Num(26))]
         before == SubU32(WrapStart, U32(sensorReadInterval))
         s == [InitSt(sketch) EXCEPT !.lastCheckTime = before, !.lastBlinkTime = before]
     IN  /\ st = IF sketch \in Ch11Sketches THEN loop11(s, WrapStart, r)
                 ELSE IF sketch = "Ch13" THEN loop13(s, WrapStart, r)
                 ELSE loop14(s, WrapStart, r, TRUE)
         /\ obs = Observe(InitObs, s, st, WrapStart, r,
                          IF sketch = "Ch14"
                            THEN [status |-> conditionStr(st.currentCondition), ok |-> TRUE]
                            ELSE NoMessage)

SpecWrap == InitWrap /\ [][Next]_vars

\* C33: the elapsed-time tests stay correct across the wrap of millis().  In
\* every call of loop() the sensor is sampled exactly when at least
\* sensorReadInterval ms of real time have passed since the last sample, and
\* while blinking is enabled the LED toggles exactly when at least
\* blinkInterval ms of real time have passed since the last toggle, also when
\* the timestamp is from before the wrap and the call from after it.
\* RealTime is a timestamp in ms since 2^32 - 2^16, counted without wrapping:
\* the timestamps of this run lie between 2^32 - 2^16 and 2^32 + 2^30.
C33_TimersSurviveWrap ==
  [][ LET RealTime(t) == IF t.hi = W16 - 1 THEN t.lo ELSE W16 + MsOf(t) IN
      /\ st.pc = "loop" =>
           (obs'.sampled <=>
              RealTime(millis') - RealTime(st.lastCheckTime) >= sensorReadInterval)
      /\ (st'.restarts = 0 /\ st'.pc = "loop") =>
           (st'.ledState # st.ledState <=>
              (st'.shouldBlink
                 /\ RealTime(millis') - RealTime(st.lastBlinkTime) >= blinkInterval))
    ]_vars

\* the first sample after the wrap has been taken, on a timestamp from before
\* it, and the LED has toggled in the same call
C33_Witness ==
  /\ obs.sampled /\ millis.hi = 0 /\ millis.lo < sensorReadInterval
  /\ st.lastCheckTime = millis /\ st.restarts = 0
  /\ st.shouldBlink /\ st.lastBlinkTime = millis

====
